---------------------------- MODULE Spec2Model ----------------------------
(***************************************************************************)
(* Sticker label generator (src/inst.py): schema resolution over named     *)
(* columns, row extraction, QR payload, location splitting, and the        *)
(* generation run of generate_sticker_labels with main's report.           *)
(*                                                                         *)
(* A Python str is a sequence of one-character strings, so that the regex  *)
(* substitution, lower(), split("_"), "in" and "+" are computed as the     *)
(* code computes them.                                                     *)
(***************************************************************************)
EXTENDS Integers, Sequences, FiniteSets, TLC

VARIABLES
  columns,        \* df.columns: the table's column names, in table order
  total_rows,     \* len(df)
  uploaded_logo,  \* the optional logo upload: "none", "valid" or "corrupt"
  pc,             \* position of the run
  found_columns,  \* generate_sticker_labels: found_columns (a dict)
  tmp_file,       \* the NamedTemporaryFile: "none", "exists" or "deleted"
  first_box_logo, \* result of process_uploaded_logo: "none" or "image"
  index,          \* number of rows df.iterrows() has yielded so far
  row,            \* the row of the current iteration (cells, by column position)
  data,           \* the fields extracted from that row (lines 296-303)
  qr_data,        \* the QR payload built for that row (lines 307-318)
  all_elements,   \* the flowables collected for doc.build
  document,       \* the flowables doc.build rendered into the temporary file
  errors,         \* the st.error messages issued by generate_sticker_labels
  result,         \* what generate_sticker_labels returned: [pdf_data, filename]
  ui,             \* main's report of the run: "none", "success" or "failed"
  arg,            \* argument of a function applied on its own
  out             \* its return value

vars == <<columns, total_rows, uploaded_logo, pc, found_columns, tmp_file,
          first_box_logo, index, row, data, qr_data, all_elements, document,
          errors, result, ui, arg, out>>

-----------------------------------------------------------------------------
(* Python values *)

\* None, and the NaN of an empty cell; neither is a str
None == <<"<None>">>
NaN == <<"<NaN>">>

\* str(): the identity on a str, "nan" for NaN, "None" for None
str(v) ==
  IF v = NaN THEN <<"n","a","n">>
  ELSE IF v = None THEN <<"N","o","n","e">>
  ELSE v

\* pd.notna / pd.isna on a scalar
notna(v) == v # NaN /\ v # None
isna(v) == ~notna(v)

UpperLetters == <<"A","B","C","D","E","F","G","H","I","J","K","L","M",
                  "N","O","P","Q","R","S","T","U","V","W","X","Y","Z">>
LowerLetters == <<"a","b","c","d","e","f","g","h","i","j","k","l","m",
                  "n","o","p","q","r","s","t","u","v","w","x","y","z">>
Digits == {"0","1","2","3","4","5","6","7","8","9"}

Range(s) == {s[i] : i \in DOMAIN s}

\* the character class [a-zA-Z0-9]
Alnum == Range(UpperLetters) \cup Range(LowerLetters) \cup Digits
IsAlnum(c) == c \in Alnum

\* str.lower() on the characters of that class
LowerOf ==
  [c \in Alnum |->
     IF c \in Range(UpperLetters)
     THEN LowerLetters[CHOOSE i \in DOMAIN UpperLetters : UpperLetters[i] = c]
     ELSE c]
lower(c) == LowerOf[c]

\* "a in b" on str: a occurs in b as a contiguous substring
In(a, b) ==
  \E i \in 0..(Len(b) - Len(a)) : SubSeq(b, i + 1, i + Len(a)) = a

-----------------------------------------------------------------------------
(* normalize_column_name *)

\* the same without .lower()
normalize_keeps_case(col_name) == SelectSeq(str(col_name), IsAlnum)

\* re.sub(r'[^a-zA-Z0-9]', '', str(col_name)).lower()
normalize_column_name(col_name) ==
  LET kept == SelectSeq(str(col_name), IsAlnum)
  IN  [i \in 1..Len(kept) |-> lower(kept[i])]

-----------------------------------------------------------------------------
(* find_column *)

Min(S) == CHOOSE x \in S : \A y \in S : x <= y
Max(S) == CHOOSE x \in S : \A y \in S : y <= x

\* the elements of a set of integers as an ascending sequence
Ascending(S) ==
  [k \in 1..Cardinality(S) |->
     CHOOSE i \in S : Cardinality({j \in S : j < i}) = k - 1]

\* {normalize_column_name(col): col for col in df.columns}, as the sequence of
\* its items <<key, value>>: a dict keeps a key at the position of its first
\* insertion and the value of its last assignment
normalized_df_columns(cols) ==
  LET norm == [i \in DOMAIN cols |-> normalize_column_name(cols[i])]
      firsts == {i \in DOMAIN cols : \A j \in 1..(i - 1) : norm[j] # norm[i]}
      order == Ascending(firsts)
  IN  [k \in DOMAIN order |->
         <<norm[order[k]],
           cols[Max({j \in DOMAIN cols : norm[j] = norm[order[k]]})]>>]

\* lines 37-39: the first alias, in declared order, that is a key of the dict
exact_match(items, names) ==
  LET hits == {a \in DOMAIN names : \E k \in DOMAIN items : items[k][1] = names[a]}
  IN  IF hits = {} THEN None
      ELSE LET a == Min(hits)
           IN  items[CHOOSE k \in DOMAIN items : items[k][1] = names[a]][2]

\* lines 42-45: aliases in the outer loop, dict items in the inner loop
partial_hit(norm_name, df_norm_name) ==
  In(norm_name, df_norm_name) \/ In(df_norm_name, norm_name)

partial_match(items, names) ==
  LET hits == {a \in DOMAIN names :
                 \E k \in DOMAIN items : partial_hit(names[a], items[k][1])}
  IN  IF hits = {} THEN None
      ELSE LET a == Min(hits)
               k == Min({j \in DOMAIN items : partial_hit(names[a], items[j][1])})
           IN  items[k][2]

\* lines 48-50: the line location keywords, on the dict items in order
kw_line == <<"l","i","n","e">>
kw_location == <<"l","o","c","a","t","i","o","n">>
kw_lineloc == <<"l","i","n","e","l","o","c">>

keyword_hit(df_norm_name) ==
  (In(kw_line, df_norm_name) /\ In(kw_location, df_norm_name))
    \/ In(kw_lineloc, df_norm_name)

keyword_match(items) ==
  LET hits == {k \in DOMAIN items : keyword_hit(items[k][1])}
  IN  IF hits = {} THEN None ELSE items[Min(hits)][2]

\* find_column with the partial matches tried before the exact ones
find_column_partial_first(cols, possible_names) ==
  LET items == normalized_df_columns(cols)
      names == [i \in DOMAIN possible_names |->
                  normalize_column_name(possible_names[i])]
  IN  IF partial_match(items, names) # None THEN partial_match(items, names)
      ELSE IF exact_match(items, names) # None THEN exact_match(items, names)
      ELSE keyword_match(items)

\* find_column(df, possible_names), lines 32-52
find_column(cols, possible_names) ==
  LET items == normalized_df_columns(cols)
      names == [i \in DOMAIN possible_names |->
                  normalize_column_name(possible_names[i])]
  IN  IF exact_match(items, names) # None THEN exact_match(items, names)
      ELSE IF partial_match(items, names) # None THEN partial_match(items, names)
      ELSE keyword_match(items)

-----------------------------------------------------------------------------
(* parse_line_location *)

\* "not x" for a str, None or NaN: NaN is a float other than 0, so it is truthy
Falsy(v) == v = None \/ v = <<>>

\* str.split(sep) for a one-character sep: the parts between the
\* occurrences of sep, empty parts included (one part more than occurrences)
split(s, sep) ==
  LET at == Ascending({i \in DOMAIN s : s[i] = sep})
      n == Len(at)
  IN  [k \in 1..(n + 1) |->
         SubSeq(s, IF k = 1 THEN 1 ELSE at[k - 1] + 1,
                   IF k = n + 1 THEN Len(s) ELSE at[k] - 1)]

\* parts[:n]
Take(s, n) == SubSeq(s, 1, IF Len(s) < n THEN Len(s) ELSE n)

\* [""] * n, which is [] when n <= 0
Blanks(n) == [i \in 1..n |-> <<>>]

\* the same without the final result[:4]
parse_line_location_untruncated(location_string) ==
  IF Falsy(location_string) \/ isna(location_string)
  THEN <<<<>>, <<>>, <<>>, <<>>>>
  ELSE LET parts == split(str(location_string), "_")
       IN  parts \o Blanks(4 - Len(parts))

\* parse_line_location(location_string), lines 140-147
parse_line_location(location_string) ==
  IF Falsy(location_string) \/ isna(location_string)
  THEN <<<<>>, <<>>, <<>>, <<>>>>
  ELSE LET parts == split(str(location_string), "_")
           result_ == Take(parts, 4) \o Blanks(4 - Len(parts))
       IN  Take(result_, 4)

-----------------------------------------------------------------------------
(* generate_sticker_labels: schema resolution *)

\* the keys of column_mappings, in the order the dict literal declares them
FieldOrder == <<"ASSLY", "part_no", "description", "Part_per_veh", "Type",
                "line_location", "part_status", "bin_type">>
Fields == Range(FieldOrder)

column_mappings ==
  [ ASSLY |-> <<
      <<"a","s","s","l","y">>,   \* 'assly'
      <<"A","S","S","Y"," ","N","A","M","E">>,   \* 'ASSY NAME'
      <<"A","s","s","y"," ","N","a","m","e">>,   \* 'Assy Name'
      <<"a","s","s","y"," ","n","a","m","e">>,   \* 'assy name'
      <<"a","s","s","y","n","a","m","e">>,   \* 'assyname'
      <<"a","s","s","y","_","n","a","m","e">>,   \* 'assy_name'
      <<"A","s","s","y","_","n","a","m","e">>,   \* 'Assy_name'
      <<"A","s","s","e","m","b","l","y">>,   \* 'Assembly'
      <<"A","s","s","e","m","b","l","y"," ","N","a","m","e">>,   \* 'Assembly Name'
      <<"A","S","S","E","M","B","L","Y">>,   \* 'ASSEMBLY'
      <<"A","s","s","e","m","b","l","y","_","N","a","m","e">>   \* 'Assembly_Name'
    >>,
    part_no |-> <<
      <<"P","A","R","T","N","O">>,   \* 'PARTNO'
      <<"P","A","R","T","N","O",".">>,   \* 'PARTNO.'
      <<"P","a","r","t"," ","N","o">>,   \* 'Part No'
      <<"P","a","r","t"," ","N","u","m","b","e","r">>,   \* 'Part Number'
      <<"P","a","r","t","N","o">>,   \* 'PartNo'
      <<"p","a","r","t","n","u","m","b","e","r">>,   \* 'partnumber'
      <<"p","a","r","t"," ","n","o">>,   \* 'part no'
      <<"p","a","r","t","n","u","m">>,   \* 'partnum'
      <<"P","A","R","T">>,   \* 'PART'
      <<"p","a","r","t">>,   \* 'part'
      <<"P","r","o","d","u","c","t"," ","C","o","d","e">>,   \* 'Product Code'
      <<"I","t","e","m"," ","N","u","m","b","e","r">>,   \* 'Item Number'
      <<"I","t","e","m"," ","I","D">>,   \* 'Item ID'
      <<"I","t","e","m"," ","N","o">>,   \* 'Item No'
      <<"i","t","e","m">>,   \* 'item'
      <<"I","t","e","m">>   \* 'Item'
    >>,
    description |-> <<
      <<"D","E","S","C","R","I","P","T","I","O","N">>,   \* 'DESCRIPTION'
      <<"D","e","s","c","r","i","p","t","i","o","n">>,   \* 'Description'
      <<"D","e","s","c">>,   \* 'Desc'
      <<"P","a","r","t"," ","D","e","s","c","r","i","p","t","i","o","n">>,   \* 'Part Description'
      <<"I","t","e","m","D","e","s","c","r","i","p","t","i","o","n">>,   \* 'ItemDescription'
      <<"i","t","e","m"," ","d","e","s","c","r","i","p","t","i","o","n">>,   \* 'item description'
      <<"P","r","o","d","u","c","t"," ","D","e","s","c","r","i","p","t","i","o","n">>,   \* 'Product Description'
      <<"I","t","e","m"," ","D","e","s","c","r","i","p","t","i","o","n">>,   \* 'Item Description'
      <<"N","A","M","E">>,   \* 'NAME'
      <<"I","t","e","m"," ","N","a","m","e">>,   \* 'Item Name'
      <<"P","r","o","d","u","c","t"," ","N","a","m","e">>   \* 'Product Name'
    >>,
    Part_per_veh |-> <<
      <<"Q","Y","T">>,   \* 'QYT'
      <<"Q","T","Y"," ","/"," ","V","E","H">>,   \* 'QTY / VEH'
      <<"Q","t","y","/","V","e","h">>,   \* 'Qty/Veh'
      <<"Q","t","y"," ","B","i","n">>,   \* 'Qty Bin'
      <<"Q","u","a","n","t","i","t","y"," ","p","e","r"," ","B","i","n">>,   \* 'Quantity per Bin'
      <<"q","t","y"," ","b","i","n">>,   \* 'qty bin'
      <<"q","t","y","b","i","n">>,   \* 'qtybin'
      <<"q","u","a","n","t","i","t","y"," ","b","i","n">>,   \* 'quantity bin'
      <<"B","I","N"," ","Q","T","Y">>,   \* 'BIN QTY'
      <<"B","I","N","Q","T","Y">>,   \* 'BINQTY'
      <<"Q","T","Y","_","B","I","N">>,   \* 'QTY_BIN'
      <<"Q","T","Y","_","P","E","R","_","B","I","N">>,   \* 'QTY_PER_BIN'
      <<"B","i","n"," ","Q","u","a","n","t","i","t","y">>,   \* 'Bin Quantity'
      <<"B","I","N">>   \* 'BIN'
    >>,
    Type |-> <<
      <<"T","Y","P","E">>,   \* 'TYPE'
      <<"t","y","p","e">>,   \* 'type'
      <<"T","y","p","e">>,   \* 'Type'
      <<"t","y","P","e">>,   \* 'tyPe'
      <<"T","y","p","e"," ","n","a","m","e">>   \* 'Type name'
    >>,
    line_location |-> <<
      <<"L","I","N","E"," ","L","O","C","A","T","I","O","N">>,   \* 'LINE LOCATION'
      <<"L","i","n","e"," ","L","o","c","a","t","i","o","n">>,   \* 'Line Location'
      <<"l","i","n","e"," ","l","o","c","a","t","i","o","n">>,   \* 'line location'
      <<"L","I","N","E","L","O","C","A","T","I","O","N">>,   \* 'LINELOCATION'
      <<"l","i","n","e","l","o","c","a","t","i","o","n">>,   \* 'linelocation'
      <<"L","i","n","e","_","L","o","c","a","t","i","o","n">>,   \* 'Line_Location'
      <<"l","i","n","e","_","l","o","c","a","t","i","o","n">>,   \* 'line_location'
      <<"L","I","N","E","_","L","O","C","A","T","I","O","N">>,   \* 'LINE_LOCATION'
      <<"L","i","n","e","L","o","c","a","t","i","o","n">>,   \* 'LineLocation'
      <<"l","i","n","e","_","l","o","c">>,   \* 'line_loc'
      <<"l","i","n","e","l","o","c">>,   \* 'lineloc'
      <<"L","I","N","E","L","O","C">>,   \* 'LINELOC'
      <<"L","i","n","e"," ","L","o","c">>   \* 'Line Loc'
    >>,
    part_status |-> <<
      <<"P","A","R","T"," ","S","T","A","T","U","S">>,   \* 'PART STATUS'
      <<"P","a","r","t"," ","S","t","a","t","u","s">>,   \* 'Part Status'
      <<"p","a","r","t"," ","s","t","a","t","u","s">>,   \* 'part status'
      <<"P","A","R","T","S","T","A","T","U","S">>,   \* 'PARTSTATUS'
      <<"p","a","r","t","s","t","a","t","u","s">>,   \* 'partstatus'
      <<"P","a","r","t","_","S","t","a","t","u","s">>,   \* 'Part_Status'
      <<"p","a","r","t","_","s","t","a","t","u","s">>,   \* 'part_status'
      <<"P","A","R","T","_","S","T","A","T","U","S">>,   \* 'PART_STATUS'
      <<"P","a","r","t","S","t","a","t","u","s">>,   \* 'PartStatus'
      <<"S","T","A","T","U","S">>,   \* 'STATUS'
      <<"S","t","a","t","u","s">>,   \* 'Status'
      <<"s","t","a","t","u","s">>,   \* 'status'
      <<"I","t","e","m"," ","S","t","a","t","u","s">>,   \* 'Item Status'
      <<"C","o","m","p","o","n","e","n","t"," ","S","t","a","t","u","s">>,   \* 'Component Status'
      <<"P","a","r","t"," ","S","t","a","t","e">>,   \* 'Part State'
      <<"S","t","a","t","e">>   \* 'State'
    >>,
    bin_type |-> <<
      <<"B","I","N"," ","T","Y","P","E">>,   \* 'BIN TYPE'
      <<"B","i","n"," ","T","y","p","e">>,   \* 'Bin Type'
      <<"b","i","n"," ","t","y","p","e">>,   \* 'bin type'
      <<"B","I","N","T","Y","P","E">>,   \* 'BINTYPE'
      <<"b","i","n","t","y","p","e">>,   \* 'bintype'
      <<"B","i","n","_","T","y","p","e">>,   \* 'Bin_Type'
      <<"b","i","n","_","t","y","p","e">>,   \* 'bin_type'
      <<"B","I","N","_","T","Y","P","E">>,   \* 'BIN_TYPE'
      <<"B","i","n","T","y","p","e">>,   \* 'BinType'
      <<"C","o","n","t","a","i","n","e","r"," ","T","y","p","e">>,   \* 'Container Type'
      <<"C","O","N","T","A","I","N","E","R"," ","T","Y","P","E">>,   \* 'CONTAINER TYPE'
      <<"C","o","n","t","a","i","n","e","r","_","T","y","p","e">>,   \* 'Container_Type'
      <<"c","o","n","t","a","i","n","e","r","_","t","y","p","e">>,   \* 'container_type'
      <<"C","O","N","T","A","I","N","E","R","_","T","Y","P","E">>,   \* 'CONTAINER_TYPE'
      <<"C","o","n","t","a","i","n","e","r","T","y","p","e">>,   \* 'ContainerType'
      <<"C","O","N","T","A","I","N","E","R">>,   \* 'CONTAINER'
      <<"C","o","n","t","a","i","n","e","r">>,   \* 'Container'
      <<"c","o","n","t","a","i","n","e","r">>,   \* 'container'
      <<"B","I","N">>,   \* 'BIN'
      <<"B","i","n">>,   \* 'Bin'
      <<"b","i","n">>,   \* 'bin'
      <<"P","a","c","k","a","g","e"," ","T","y","p","e">>,   \* 'Package Type'
      <<"P","A","C","K","A","G","E"," ","T","Y","P","E">>,   \* 'PACKAGE TYPE'
      <<"P","a","c","k","a","g","e","_","T","y","p","e">>,   \* 'Package_Type'
      <<"p","a","c","k","a","g","e","_","t","y","p","e">>,   \* 'package_type'
      <<"P","A","C","K","A","G","E","_","T","Y","P","E">>,   \* 'PACKAGE_TYPE'
      <<"P","a","c","k","a","g","e","T","y","p","e">>,   \* 'PackageType'
      <<"S","t","o","r","a","g","e"," ","T","y","p","e">>,   \* 'Storage Type'
      <<"S","T","O","R","A","G","E"," ","T","Y","P","E">>,   \* 'STORAGE TYPE'
      <<"S","t","o","r","a","g","e","_","T","y","p","e">>,   \* 'Storage_Type'
      <<"s","t","o","r","a","g","e","_","t","y","p","e">>   \* 'storage_type'
    >> ]

\* "if x:" for a str or None
Truthy(v) == v # None /\ v # <<>>

\* lines 184-188: found_columns holds the keys whose find_column is truthy
resolve(cols) ==
  [key \in {k \in Fields : Truthy(find_column(cols, column_mappings[k]))} |->
     find_column(cols, column_mappings[key])]

required_columns == <<"ASSLY", "part_no", "description">>

\* line 192 with the last required column left out of the check
missing_required_skips_last(found) ==
  SelectSeq(SubSeq(required_columns, 1, 2), LAMBDA col : col \notin DOMAIN found)

\* line 192 with no required column ever reported missing
missing_required_unchecked(found) == SubSeq(required_columns, 1, 0)

\* line 192
missing_required(found) ==
  SelectSeq(required_columns, LAMBDA col : col \notin DOMAIN found)

-----------------------------------------------------------------------------
(* generate_sticker_labels: the loop body *)

\* row[name]: the cell of the row under the column of that name
Cell(r, cols, name) == r[CHOOSE i \in DOMAIN cols : cols[i] = name]

NotAvailable == <<"N","/","A">>

\* lines 296-298
required_value(r, cols, found, key) ==
  IF key \in DOMAIN found THEN str(Cell(r, cols, found[key])) ELSE NotAvailable

\* lines 299-303 without the pd.notna test
optional_value_unchecked(r, cols, found, key) ==
  IF key \in DOMAIN found THEN str(Cell(r, cols, found[key])) ELSE <<>>

\* lines 299-303
optional_value(r, cols, found, key) ==
  IF key \in DOMAIN found /\ notna(Cell(r, cols, found[key]))
  THEN str(Cell(r, cols, found[key]))
  ELSE <<>>

\* lines 296-303: the locals extracted from one row
extract(r, cols, found) ==
  [ ASSLY             |-> required_value(r, cols, found, "ASSLY"),
    part_no           |-> required_value(r, cols, found, "part_no"),
    desc              |-> required_value(r, cols, found, "description"),
    Part_per_veh      |-> optional_value(r, cols, found, "Part_per_veh"),
    Type              |-> optional_value(r, cols, found, "Type"),
    line_location_raw |-> optional_value(r, cols, found, "line_location"),
    part_status       |-> optional_value(r, cols, found, "part_status"),
    bin_type          |-> optional_value(r, cols, found, "bin_type") ]

NoData ==
  [ ASSLY |-> <<>>, part_no |-> <<>>, desc |-> <<>>, Part_per_veh |-> <<>>,
    Type |-> <<>>, line_location_raw |-> <<>>, part_status |-> <<>>,
    bin_type |-> <<>> ]

\* the literals of the f-strings of lines 307-318
NL == <<"\n">>
lbl_ASSLY == <<"A","S","S","L","Y",":"," ">>
lbl_part_no == <<"P","a","r","t"," ","N","o",":"," ">>
lbl_desc == <<"D","e","s","c","r","i","p","t","i","o","n",":"," ">>
lbl_qty == <<"Q","T","Y","/","V","E","H",":"," ">>
lbl_bin_type == <<"B","i","n"," ","T","y","p","e",":"," ">>
lbl_Type == <<"T","y","p","e",":"," ">>
lbl_part_status == <<"P","a","r","t"," ","S","t","a","t","u","s",":"," ">>
lbl_line_location ==
  <<"L","i","n","e"," ","L","o","c","a","t","i","o","n",":"," ">>
lbl_date == <<"D","a","t","e",":"," ">>

\* datetime.datetime.now().strftime("%d-%m-%Y"), line 266, on the day of the run
today_date == <<"0","1","-","1","1","-","2","0","2","6">>

\* qr_data += f"{label}{value}\n" when the value is truthy
line_if(s, label, value) ==
  IF Truthy(value) THEN s \o label \o value \o NL ELSE s

\* lines 307-318: the QR payload of one row
build_qr_data(d) ==
  LET s0 == lbl_ASSLY \o d.ASSLY \o NL \o lbl_part_no \o d.part_no \o NL
              \o lbl_desc \o d.desc \o NL
      s1 == line_if(s0, lbl_qty, d.Part_per_veh)
      s2 == line_if(s1, lbl_bin_type, d.bin_type)
      s3 == line_if(s2, lbl_Type, d.Type)
      s4 == line_if(s3, lbl_part_status, d.part_status)
      s5 == line_if(s4, lbl_line_location, d.line_location_raw)
  IN  s5 \o lbl_date \o today_date

\* lines 320-324: the QR cell is the image, or the "QR" paragraph when
\* generate_qr_code returned None
qr_cell_of(qr_image) == IF qr_image # None THEN "image" ELSE "placeholder"

\* the names the loop body assigns between lines 359 and 506
names_assigned ==
  { "col_widths_assly", "col_widths_partno", "col_widths_standard",
    "col_widths_qty", "col_widths_middle", "col_widths_bottom",
    "assly_table_style", "partno_table_style", "desc_table_style",
    "qty_table_style", "middle_table_style", "bottom_table_style" }

\* the names lines 395-403 and 509-513 read, in the order they are read
names_read ==
  << "col_widths_assly", "col_widths_partno", "col_widths_standard",
     "col_widths_combined", "col_widths_bottom",
     "assly_table_style", "partno_table_style", "desc_table_style",
     "qty_type_date_table_style", "bottom_table_style" >>

\* the names read in lines 395-513 that nothing assigns: reading the first
\* of them raises NameError
unbound_names == SelectSeq(names_read, LAMBDA n : n \notin names_assigned)

\* line 345: Paragraph(ASSLY, ASSLY_style), the value cell of the identity
\* panel, as its runs of text: the whole value in the font of ASSLY_style
\* (lines 225-234), with no markup around any part of it
assly_value_cell(ASSLY) == << [text |-> ASSLY, font |-> "Helvetica"] >>

\* line 346: Paragraph(f"<b>{part_no}</b>", Part_style)
part_no_value_cell(part_no) == << [text |-> part_no, font |-> "Helvetica-Bold"] >>

\* the flowables of one row, lines 516-528
PageBreak == [kind |-> "PageBreak"]

label_of(i, d, qr_cell, logo) ==
  [ kind |-> "label", row |-> i, ASSLY |-> d.ASSLY, part_no |-> d.part_no,
    desc |-> d.desc, Part_per_veh |-> d.Part_per_veh, bin_type |-> d.bin_type,
    Type |-> d.Type, part_status |-> d.part_status,
    location_boxes |-> parse_line_location(d.line_location_raw),
    qr_cell |-> qr_cell, first_box |-> logo ]

\* lines 516-528: index < len(df) - 1 decides the page break
elements_of(i, n, d, qr_cell, logo) ==
  <<label_of(i, d, qr_cell, logo)>> \o (IF i < n - 1 THEN <<PageBreak>> ELSE <<>>)

-----------------------------------------------------------------------------
(* Bounds and input sets *)

MaxCols == 3        \* columns of the uploaded table
MaxRows == 2        \* rows of the uploaded table
MaxNameLen == 3     \* length of a name given to normalize_column_name
MaxLocLen == 6      \* length of a string given to parse_line_location
MaxFindCols == 2    \* columns of a table given to find_column on its own
MaxAliases == 2     \* length of an alias list given to find_column on its own
MaxAsslyLen == 5    \* length of an Assembly value shown in the identity panel

SeqsUpTo(S, n) == UNION {[1..k -> S] : k \in 0..n}

DistinctSeqs(S, n) ==
  {s \in SeqsUpTo(S, n) : \A i, j \in DOMAIN s : i # j => s[i] # s[j]}

\* header names of uploaded tables
ColumnPool ==
  { <<"A","s","s","e","m","b","l","y"," ","N","a","m","e">>,
    <<"P","a","r","t"," ","N","o">>,
    <<"D","e","s","c","r","i","p","t","i","o","n">>,
    <<"L","i","n","e"," ","L","o","c","a","t","i","o","n">>,
    <<"S","t","a","t","u","s">>,
    <<"A","S","S","L","Y">>,
    <<"R","e","m","a","r","k","s">> }

\* a table has at least one column, and column names are unique
Tables == DistinctSeqs(ColumnPool, MaxCols) \ {<<>>}

\* cells: empty (NaN), or text
CellValues == {NaN, <<"A","_","1">>}

\* the table of the worked example: three columns and one row
SampleColumns ==
  << <<"A","s","s","e","m","b","l","y"," ","N","a","m","e">>,
     <<"P","a","r","t"," ","N","o">>,
     <<"D","e","s","c","r","i","p","t","i","o","n">> >>

SampleRow ==
  << <<"A","X","-","1","0","0","-","1","2","3">>,
     <<"P","N","-","9","9","8">>,
     <<"B","r","a","c","k","e","t">> >>

Rows(cols) ==
  [DOMAIN cols -> CellValues] \cup (IF cols = SampleColumns THEN {SampleRow} ELSE {})

Image == <<"<Image>">>
PdfBytes == <<"%PDF">>
Filename == <<"sticker_labels_<now>.pdf">>
NoResult == [pdf_data |-> <<"<unset>">>, filename |-> <<"<unset>">>]

-----------------------------------------------------------------------------
(* The generation run: main lines 697-724 calling generate_sticker_labels *)

Init ==
  /\ columns \in Tables
  /\ total_rows \in 0..MaxRows
  /\ uploaded_logo \in {"none", "valid", "corrupt"}
  /\ pc = "start"
  /\ found_columns = <<>>
  /\ tmp_file = "none"
  /\ first_box_logo = "none"
  /\ index = 0
  /\ row = <<>>
  /\ data = NoData
  /\ qr_data = <<>>
  /\ all_elements = <<>>
  /\ document = <<>>
  /\ errors = <<>>
  /\ result = NoResult
  /\ ui = "none"
  /\ arg = None
  /\ out = None

\* a failure path that hands back the bytes written so far and a file name
returned_on_failure_partial == [pdf_data |-> PdfBytes, filename |-> Filename]

\* "return None, None", lines 196 and 549
returned_on_failure == [pdf_data |-> None, filename |-> None]

\* lines 183-188
ResolveSchema ==
  /\ pc = "start"
  /\ found_columns' = resolve(columns)
  /\ pc' = "check"
  /\ UNCHANGED <<columns, total_rows, uploaded_logo, tmp_file, first_box_logo,
                 index, row, data, qr_data, all_elements, document, errors,
                 result, ui, arg, out>>

\* lines 190-200: the required columns, then the temporary file
CheckRequired ==
  /\ pc = "check"
  /\ IF missing_required(found_columns) # <<>>
     THEN /\ errors' = Append(errors, [kind |-> "missing_required",
                                       detail |-> missing_required(found_columns)])
          /\ result' = returned_on_failure
          /\ pc' = "returned"
          /\ UNCHANGED tmp_file
     ELSE /\ tmp_file' = "exists"
          /\ pc' = "setup"
          /\ UNCHANGED <<errors, result>>
  /\ UNCHANGED <<columns, total_rows, uploaded_logo, found_columns,
                 first_box_logo, index, row, data, qr_data, all_elements,
                 document, ui, arg, out>>

\* lines 202-288: the document template, the logo (process_uploaded_logo,
\* lines 54-111, returns None on any exception), the progress bar
PrepareDocument ==
  /\ pc = "setup"
  /\ first_box_logo' = IF uploaded_logo = "valid" THEN "image" ELSE "none"
  /\ errors' = IF uploaded_logo = "corrupt"
               THEN errors \o <<[kind |-> "logo", detail |-> <<"process_uploaded_logo">>],
                                [kind |-> "logo", detail |-> <<"Failed to process uploaded logo">>]>>
               ELSE errors
  /\ pc' = "loop"
  /\ UNCHANGED <<columns, total_rows, uploaded_logo, found_columns, tmp_file,
                 index, row, data, qr_data, all_elements, document, result,
                 ui, arg, out>>

\* generate_qr_code, lines 113-138: the image, or None after st.error when
\* the import or the encoder raises
generate_qr_code(data_string, encoder_ok) == IF encoder_ok THEN Image ELSE None

qr_errors(encoder_ok) ==
  IF encoder_ok THEN <<>>
  ELSE <<[kind |-> "qr", detail |-> <<"Error generating QR code">>]>>

\* lines 545-549: the handler of the function's try block
exception_errors(name) ==
  <<[kind |-> "exception", detail |-> <<"NameError", name>>]>>

\* lines 290-528: one iteration of the loop over df.iterrows()
ProcessRow ==
  /\ pc = "loop"
  /\ index < total_rows
  /\ \E r \in Rows(columns), encoder_ok \in BOOLEAN :
       LET d == extract(r, columns, found_columns)
           payload == build_qr_data(d)
           qr_cell == qr_cell_of(generate_qr_code(payload, encoder_ok))
       IN  /\ row' = r
           /\ data' = d
           /\ qr_data' = payload
           /\ index' = index + 1
           /\ IF unbound_names # <<>>
              THEN /\ errors' = errors \o qr_errors(encoder_ok)
                                  \o exception_errors(unbound_names[1])
                   /\ result' = returned_on_failure
                   /\ pc' = "returned"
                   /\ UNCHANGED all_elements
              ELSE /\ errors' = errors \o qr_errors(encoder_ok)
                   /\ all_elements' = all_elements
                        \o elements_of(index, total_rows, d, qr_cell, first_box_logo)
                   /\ UNCHANGED <<result, pc>>
  /\ UNCHANGED <<columns, total_rows, uploaded_logo, found_columns, tmp_file,
                 first_box_logo, document, ui, arg, out>>

\* lines 530-543: doc.build renders the flowables, the file is read back
\* and unlinked, and the bytes are returned with a file name
BuildDocument ==
  /\ pc = "loop"
  /\ index = total_rows
  /\ document' = all_elements
  /\ tmp_file' = "deleted"
  /\ result' = [pdf_data |-> PdfBytes, filename |-> Filename]
  /\ pc' = "returned"
  /\ UNCHANGED <<columns, total_rows, uploaded_logo, found_columns,
                 first_box_logo, index, row, data, qr_data, all_elements,
                 errors, ui, arg, out>>

\* lines 534 and 545-549: doc.build raises, and the handler of the try
\* block reports the exception and returns None, None
BuildDocumentRaises ==
  /\ pc = "loop"
  /\ index = total_rows
  /\ errors' = errors \o <<[kind |-> "exception", detail |-> <<"doc.build">>]>>
  /\ result' = returned_on_failure
  /\ pc' = "returned"
  /\ UNCHANGED <<columns, total_rows, uploaded_logo, found_columns, tmp_file,
                 first_box_logo, index, row, data, qr_data, all_elements,
                 document, ui, arg, out>>

\* main, lines 709-724: "if pdf_data:" decides between the success message
\* with the download button and the failure message
ReportOutcome ==
  /\ pc = "returned"
  /\ ui' = IF Truthy(result.pdf_data) THEN "success" ELSE "failed"
  /\ pc' = "done"
  /\ UNCHANGED <<columns, total_rows, uploaded_logo, found_columns, tmp_file,
                 first_box_logo, index, row, data, qr_data, all_elements,
                 document, errors, result, arg, out>>

Next ==
  \/ ResolveSchema
  \/ CheckRequired
  \/ PrepareDocument
  \/ ProcessRow
  \/ BuildDocument
  \/ BuildDocumentRaises
  \/ ReportOutcome

Spec == Init /\ [][Next]_vars

-----------------------------------------------------------------------------
(* Properties of the generation run, checked under Spec *)

Returned == pc \in {"returned", "done"}

RequiredResolved == \A key \in Range(required_columns) : key \in DOMAIN found_columns

HasError(kind) == \E i \in DOMAIN errors : errors[i].kind = kind

\* the stream of n labels in row order, a page break after each but the last
IsLabelStream(stream, n) ==
  /\ Len(stream) = 2 * n - 1
  /\ \A i \in 1..n :
       /\ stream[2 * i - 1].kind = "label"
       /\ stream[2 * i - 1].row = i - 1
       /\ i < n => stream[2 * i].kind = "PageBreak"

\* C1: for a table of N >= 1 rows whose required fields resolve, the run
\* leaves a stream of exactly one label per row, in row order, with a page
\* break after every label except the last (N labels, N-1 page breaks).
C1_OneLabelPerRow ==
  (Returned /\ RequiredResolved /\ total_rows >= 1)
    => IsLabelStream(all_elements, total_rows)

\* C2: when a required field is left unresolved, generation stops before any
\* row is processed, reports exactly the unresolved required fields, and
\* returns no document and no filename.
C2_MissingRequiredStops ==
  (pc \notin {"start", "check"} /\ ~RequiredResolved)
    => /\ Returned
       /\ errors = <<[kind |-> "missing_required",
                      detail |-> SelectSeq(<<"ASSLY", "part_no", "description">>,
                                           LAMBDA k : k \notin DOMAIN found_columns)]>>
       /\ result = [pdf_data |-> None, filename |-> None]
       /\ index = 0
       /\ all_elements = <<>>
       /\ document = <<>>
       /\ tmp_file = "none"

C2_Witness ==
  /\ pc = "returned"
  /\ "description" \notin DOMAIN found_columns
  /\ "ASSLY" \in DOMAIN found_columns
  /\ total_rows >= 1
  /\ errors # <<>>

\* the column's canonical form equals, contains or is contained in the
\* canonical form of one of the field's own aliases
MatchesOwnAlias(key, col) ==
  \E a \in DOMAIN column_mappings[key] :
    LET n == normalize_column_name(column_mappings[key][a])
        c == normalize_column_name(col)
    IN  n = c \/ In(n, c) \/ In(c, n)

\* C3: the keyword tier is applied only when resolving line_location: every
\* other field is resolved only to a column that matches one of its own
\* aliases exactly or as a substring.
C3_KeywordTierOnlyLineLocation ==
  pc # "start"
    => \A key \in DOMAIN found_columns \ {"line_location"} :
         MatchesOwnAlias(key, found_columns[key])

\* C9: when QR encoding fails for a row, that row's label is still composed
\* with the placeholder in its QR cell, the remaining rows are processed, and
\* the QR error alone does not make the run fail.
C9_QrFailureDegrades ==
  (Returned /\ HasError("qr"))
    => /\ \E i \in DOMAIN all_elements :
            /\ all_elements[i].kind = "label"
            /\ all_elements[i].qr_cell = "placeholder"
       /\ index = total_rows
       /\ ~HasError("exception") => result.pdf_data = PdfBytes

\* C10: for a table with zero rows and resolved required columns the stream
\* is empty and the caller is told neither of an error nor of a successfully
\* generated document.
C10_ZeroRowsNothingToDo ==
  (pc = "done" /\ RequiredResolved /\ total_rows = 0)
    => /\ all_elements = <<>>
       /\ ui \notin {"success", "failed"}

-----------------------------------------------------------------------------
(* Functions applied on their own: the inputs are drawn by the initial      *)
(* predicate, and one action applies the function                           *)

\* the variables of the generation run, at rest
RunAtRest ==
  /\ total_rows = 0
  /\ uploaded_logo = "none"
  /\ tmp_file = "none"
  /\ first_box_logo = "none"
  /\ index = 0
  /\ qr_data = <<>>
  /\ all_elements = <<>>
  /\ document = <<>>
  /\ errors = <<>>
  /\ result = NoResult
  /\ ui = "none"
  /\ out = None

(* normalize_column_name *)

NameAlphabet == {"a", "Z", "7", "_", " ", "."}

InitNormalize ==
  /\ RunAtRest
  /\ columns = <<>> /\ found_columns = <<>> /\ row = <<>> /\ data = NoData
  /\ arg \in SeqsUpTo(NameAlphabet, MaxNameLen)
  /\ pc = "call"

CallNormalize ==
  /\ pc = "call"
  /\ out' = normalize_column_name(arg)
  /\ pc' = "return"
  /\ UNCHANGED <<columns, total_rows, uploaded_logo, found_columns, tmp_file,
                 first_box_logo, index, row, data, qr_data, all_elements,
                 document, errors, result, ui, arg>>

SpecNormalize == InitNormalize /\ [][CallNormalize]_vars

\* C5: normalize_column_name(n) holds only lowercase ASCII letters and
\* digits, maps the empty name to the empty string, and is idempotent.
C5_NormalizeCanonical ==
  pc = "return"
    => /\ \A i \in DOMAIN out : out[i] \in Range(LowerLetters) \cup Digits
       /\ arg = <<>> => out = <<>>
       /\ normalize_column_name(out) = out

C5_Witness ==
  /\ pc = "return"
  /\ arg = <<"Z", "_", "7">>
  /\ out = <<"z", "7">>

(* find_column *)

\* names with equal canonical forms ("ab"), with canonical forms that contain
\* one another, with an empty canonical form, and with the keyword
FindNames ==
  { <<"a","b">>, <<"A","_","B">>, <<"a">>, <<"b","c">>, <<"-">>,
    <<"L","i","n","e","L","o","c">> }

InitFindColumn ==
  /\ RunAtRest
  /\ found_columns = <<>> /\ row = <<>> /\ data = NoData
  /\ columns \in DistinctSeqs(FindNames, MaxFindCols)
  /\ arg \in SeqsUpTo(FindNames, MaxAliases)
  /\ pc = "call"

CallFindColumn ==
  /\ pc = "call"
  /\ out' = find_column(columns, arg)
  /\ pc' = "return"
  /\ UNCHANGED <<columns, total_rows, uploaded_logo, found_columns, tmp_file,
                 first_box_logo, index, row, data, qr_data, all_elements,
                 document, errors, result, ui, arg>>

SpecFindColumn == InitFindColumn /\ [][CallFindColumn]_vars

\* the aliases whose canonical form is the canonical form of some column
ExactAliases ==
  {a \in DOMAIN arg :
     \E c \in DOMAIN columns :
       normalize_column_name(columns[c]) = normalize_column_name(arg[a])}

\* C4: when some column's canonical form equals some alias's canonical form,
\* find_column returns a column whose canonical form is that of the first
\* alias, in declared order, that has such an exact match, whatever would
\* match in the substring tier.
C4_ExactTierWins ==
  (pc = "return" /\ ExactAliases # {})
    => /\ out \in Range(columns)
       /\ normalize_column_name(out) = normalize_column_name(arg[Min(ExactAliases)])

C4_Witness ==
  /\ pc = "return"
  /\ columns = << <<"b","c">>, <<"A","_","B">> >>
  /\ arg = << <<"-">>, <<"a","b">> >>
  /\ out = <<"A","_","B">>

(* parse_line_location *)

LocAlphabet == {"A", "B", "_"}

InitParseLineLocation ==
  /\ RunAtRest
  /\ columns = <<>> /\ found_columns = <<>> /\ row = <<>> /\ data = NoData
  /\ arg \in SeqsUpTo(LocAlphabet, MaxLocLen) \cup {None, NaN}
  /\ pc = "call"

CallParseLineLocation ==
  /\ pc = "call"
  /\ out' = parse_line_location(arg)
  /\ pc' = "return"
  /\ UNCHANGED <<columns, total_rows, uploaded_logo, found_columns, tmp_file,
                 first_box_logo, index, row, data, qr_data, all_elements,
                 document, errors, result, ui, arg>>

SpecParseLineLocation == InitParseLineLocation /\ [][CallParseLineLocation]_vars

Underscores(s) == Cardinality({i \in DOMAIN s : s[i] = "_"})

\* "_".join(parts)
RECURSIVE JoinUnderscore(_)
JoinUnderscore(parts) ==
  IF parts = <<>> THEN <<>>
  ELSE IF Len(parts) = 1 THEN parts[1]
  ELSE parts[1] \o <<"_">> \o JoinUnderscore(Tail(parts))

IsPrefix(p, s) == Len(p) <= Len(s) /\ SubSeq(s, 1, Len(p)) = p

\* C6: parse_line_location returns exactly 4 segments: four empty strings for
\* an empty or absent input; otherwise the segments are the first parts of
\* the input between its underscores, padded with empty strings when there
\* are fewer than 4 parts, and the parts beyond the fourth are dropped.
C6_FourSegments ==
  pc = "return"
    => /\ Len(out) = 4
       /\ IF arg \in {None, NaN, <<>>}
          THEN out = <<<<>>, <<>>, <<>>, <<>>>>
          ELSE /\ \A i \in DOMAIN out : "_" \notin Range(out[i])
               /\ IF Underscores(arg) <= 3
                  THEN /\ JoinUnderscore(SubSeq(out, 1, Underscores(arg) + 1)) = arg
                       /\ \A i \in DOMAIN out : i > Underscores(arg) + 1 => out[i] = <<>>
                  ELSE IsPrefix(JoinUnderscore(out) \o <<"_">>, arg)

C6_Witness ==
  /\ pc = "return"
  /\ arg = <<"A", "_", "_", "B", "_", "_">>
  /\ out = << <<"A">>, <<>>, <<"B">>, <<>> >>

(* the extraction of one row, lines 296-303 *)

ExtractColumns ==
  << <<"P","a","r","t"," ","N","o">>, <<"S","t","a","t","u","s">> >>

\* cells: empty (NaN), the empty string, text, text with blanks around it
ExtractCells == {NaN, <<>>, <<"A","_","1">>, <<" ","x"," ">>}

\* every schema over the columns: each field absent, or resolved to a column
Schemas ==
  UNION {[S -> Range(ExtractColumns)] : S \in SUBSET Fields}

InitExtract ==
  /\ RunAtRest
  /\ columns = ExtractColumns
  /\ found_columns \in Schemas
  /\ row \in [DOMAIN ExtractColumns -> ExtractCells]
  /\ data = NoData
  /\ arg = None
  /\ pc = "call"

CallExtract ==
  /\ pc = "call"
  /\ data' = extract(row, columns, found_columns)
  /\ pc' = "return"
  /\ UNCHANGED <<columns, total_rows, uploaded_logo, found_columns, tmp_file,
                 first_box_logo, index, row, qr_data, all_elements,
                 document, errors, result, ui, arg, out>>

SpecExtract == InitExtract /\ [][CallExtract]_vars

\* the local that holds a field's value
LocalOf ==
  [ ASSLY |-> "ASSLY", part_no |-> "part_no", description |-> "desc",
    Part_per_veh |-> "Part_per_veh", Type |-> "Type",
    line_location |-> "line_location_raw", part_status |-> "part_status",
    bin_type |-> "bin_type" ]

\* the cell of the row under the column a field is resolved to
CellOf(key) ==
  row[CHOOSE i \in DOMAIN columns : columns[i] = found_columns[key]]

\* the string form of a cell: its text, and "nan" for an empty cell
StringForm(cell) == IF cell = NaN THEN <<"n","a","n">> ELSE cell

\* C8: an optional field is the empty string when its schema entry is absent
\* or its cell is empty/NaN, and the string form of the cell otherwise; a
\* required field is "N/A" when (and only when) its schema entry is absent,
\* and the string form of the cell, blank or not, when it is resolved.
C8_AbsencePolicy ==
  pc = "return"
    => \A key \in Fields :
         data[LocalOf[key]] =
           IF key \in Range(required_columns)
           THEN IF key \notin DOMAIN found_columns
                THEN <<"N","/","A">>
                ELSE StringForm(CellOf(key))
           ELSE IF key \notin DOMAIN found_columns \/ CellOf(key) \in {NaN, <<>>}
                THEN <<>>
                ELSE StringForm(CellOf(key))

C8_Witness ==
  /\ pc = "return"
  /\ row = <<NaN, <<"A","_","1">>>>
  /\ "ASSLY" \notin DOMAIN found_columns /\ data.ASSLY = <<"N","/","A">>
  /\ "part_no" \in DOMAIN found_columns /\ data.part_no = <<"n","a","n">>
  /\ "Type" \in DOMAIN found_columns /\ data.Type = <<>>
  /\ "part_status" \in DOMAIN found_columns /\ data.part_status = <<"A","_","1">>
  /\ "bin_type" \notin DOMAIN found_columns /\ data.bin_type = <<>>

(* the QR payload of one row, lines 307-318 *)

\* field values: empty, text, and text of two lines
QrValues == {<<>>, <<"a">>, <<"a","\n","b">>}

InitQrData ==
  /\ RunAtRest
  /\ columns = <<>> /\ found_columns = <<>> /\ row = <<>>
  /\ data \in [ ASSLY : QrValues, part_no : QrValues, desc : QrValues,
                Part_per_veh : QrValues, Type : QrValues,
                line_location_raw : QrValues, part_status : QrValues,
                bin_type : QrValues ]
  /\ arg = None
  /\ pc = "call"

CallBuildQrData ==
  /\ pc = "call"
  /\ qr_data' = build_qr_data(data)
  /\ pc' = "return"
  /\ UNCHANGED <<columns, total_rows, uploaded_logo, found_columns, tmp_file,
                 first_box_logo, index, row, data, all_elements,
                 document, errors, result, ui, arg, out>>

SpecQrData == InitQrData /\ [][CallBuildQrData]_vars

\* the line of an optional field: present if and only if the field is non-empty
OptionalLine(label, value) == IF value # <<>> THEN <<label \o value>> ELSE <<>>

\* the lines the payload is to have, in the fixed order
PayloadLines(d) ==
  << <<"A","S","S","L","Y",":"," ">> \o d.ASSLY,
     <<"P","a","r","t"," ","N","o",":"," ">> \o d.part_no,
     <<"D","e","s","c","r","i","p","t","i","o","n",":"," ">> \o d.desc >>
  \o OptionalLine(<<"Q","T","Y","/","V","E","H",":"," ">>, d.Part_per_veh)
  \o OptionalLine(<<"B","i","n"," ","T","y","p","e",":"," ">>, d.bin_type)
  \o OptionalLine(<<"T","y","p","e",":"," ">>, d.Type)
  \o OptionalLine(<<"P","a","r","t"," ","S","t","a","t","u","s",":"," ">>, d.part_status)
  \o OptionalLine(<<"L","i","n","e"," ","L","o","c","a","t","i","o","n",":"," ">>,
                  d.line_location_raw)
  \o << <<"D","a","t","e",":"," ">> \o today_date >>

\* C7: the lines of the QR payload are, in this order, Assembly, Part No,
\* Description, QTY/VEH, Bin Type, Type, Part Status, Line Location, Date:
\* the first three and Date always, Date last, each optional line if and only
\* if its field is non-empty, and no field gives more than one line.
C7_PayloadLines ==
  pc = "return" => split(qr_data, "\n") = PayloadLines(data)

\* the same for the field values that hold no line break
C7_PayloadLinesOfSingleLineValues ==
  (pc = "return" /\ \A f \in DOMAIN data : "\n" \notin Range(data[f]))
    => split(qr_data, "\n") = PayloadLines(data)

-----------------------------------------------------------------------------
(* Further properties of the generation run, checked under Spec *)

\* C11: when generation fails fatally (a required field unresolved, or an
\* exception during row composition or the document build), the caller gets
\* no document bytes and no file name; bytes are returned only for a document
\* that covers every row.
C11_NoPartialDocument ==
  Returned
    => /\ (HasError("missing_required") \/ HasError("exception"))
            => (result.pdf_data = None /\ result.filename = None)
       /\ result.pdf_data # None
            => (index = total_rows /\ document = all_elements
                  /\ ~HasError("missing_required") /\ ~HasError("exception"))

C11_Witness ==
  /\ pc = "returned"
  /\ total_rows = 2
  /\ index = 1
  /\ HasError("exception")
  /\ result.pdf_data = None

-----------------------------------------------------------------------------
(* the value cell of the identity panel, line 345 *)

AsslyAlphabet == {"A", "1", "-"}

InitAsslyCell ==
  /\ RunAtRest
  /\ columns = <<>> /\ found_columns = <<>> /\ row = <<>> /\ data = NoData
  /\ arg \in SeqsUpTo(AsslyAlphabet, MaxAsslyLen)
  /\ pc = "call"

CallAsslyCell ==
  /\ pc = "call"
  /\ out' = assly_value_cell(arg)
  /\ pc' = "return"
  /\ UNCHANGED <<columns, total_rows, uploaded_logo, found_columns, tmp_file,
                 first_box_logo, index, row, data, qr_data, all_elements,
                 document, errors, result, ui, arg>>

SpecAsslyCell == InitAsslyCell /\ [][CallAsslyCell]_vars

\* the text a cell shows in a font, in the order of its runs
RECURSIVE TextIn(_, _)
TextIn(runs, font) ==
  IF runs = <<>> THEN <<>>
  ELSE (IF runs[1].font = font THEN runs[1].text ELSE <<>>)
         \o TextIn(Tail(runs), font)

\* the last 3 characters of a value (the whole value when it has at most 3),
\* and what comes before them
SuffixOf(s) == IF Len(s) <= 3 THEN s ELSE SubSeq(s, Len(s) - 2, Len(s))
MainOf(s) == IF Len(s) <= 3 THEN <<>> ELSE SubSeq(s, 1, Len(s) - 3)

\* C12: the identity panel shows the Assembly value as a main portion (all
\* but the last 3 characters) followed by an emphasized suffix (the last 3
\* characters, the whole value when its length is <= 3), and main followed
\* by suffix is the value.
C12_AssemblySuffixEmphasized ==
  pc = "return"
    => /\ TextIn(out, "Helvetica") = MainOf(arg)
       /\ TextIn(out, "Helvetica-Bold") = SuffixOf(arg)
       /\ MainOf(arg) \o SuffixOf(arg) = arg

-----------------------------------------------------------------------------
(* the line location widths: the sliders of main, lines 579-620, and the     *)
(* widths of the location row, lines 386-392. Fractions are counted in       *)
(* ten-thousandths, which every slider value and bound below is a whole      *)
(* number of.                                                                *)

One == 10000           \* 1.0
HeaderMin == 1000      \* min_value=0.1
HeaderMax == 5000      \* max_value=0.5
HeaderStep == 500      \* step=0.05
BoxMin == 500          \* min_value=0.05, and the floor of box 4
BoxStep == 250         \* step=0.025
BoxDefault == 1875     \* 0.1875
WarnTolerance == 10    \* 0.001
CONTENT_BOX_WIDTH == 98   \* 9.8 * cm, in millimetres

Smaller(a, b) == IF a < b THEN a ELSE b
Larger(a, b) == IF a > b THEN a ELSE b
Abs(x) == IF x < 0 THEN 0 - x ELSE x

\* line 586
remaining_width(header) == One - header

\* max_value=remaining_width*0.8, lines 590, 597, 604
box_max(header) == (remaining_width(header) * 8) \div 10

\* value=min(0.1875, remaining_width*0.25), lines 591, 598, 605
box_default(header) == Smaller(BoxDefault, remaining_width(header) \div 4)

\* the values the header slider can hold
HeaderValues ==
  {HeaderMin + k * HeaderStep : k \in 0..((HeaderMax - HeaderMin) \div HeaderStep)}

\* the values a box slider can hold: its default, the steps from its minimum
\* that do not pass its maximum, and the maximum
BoxValues(header) ==
  {box_default(header), box_max(header)}
    \cup {BoxMin + k * BoxStep : k \in 0..((box_max(header) - BoxMin) \div BoxStep)}

\* line 611 without the floor of 0.05
line_loc_box4_width_unfloored(used_width) == One - used_width

\* line 611: max(0.05, 1.0 - used_width)
line_loc_box4_width(used_width) == Larger(BoxMin, One - used_width)

\* lines 616-619: the condition of st.warning
width_warning(total_width) == Abs(total_width - One) > WarnTolerance

\* lines 386-392: content_width * fraction, for the five columns in order
\* (in ten-thousandths of a millimetre)
col_widths_bottom(fractions) ==
  [i \in DOMAIN fractions |-> CONTENT_BOX_WIDTH * fractions[i]]

\* lines 579-620, then lines 386-392 with the five values main passes on
layout_of(sliders) ==
  LET used_width == sliders[1] + sliders[2] + sliders[3] + sliders[4]
      fractions == sliders \o <<line_loc_box4_width(used_width)>>
      total_width == fractions[1] + fractions[2] + fractions[3]
                       + fractions[4] + fractions[5]
  IN  [ fractions |-> fractions,
        warning |-> width_warning(total_width),
        col_widths_bottom |-> col_widths_bottom(fractions) ]

InitLayout ==
  /\ RunAtRest
  /\ columns = <<>> /\ found_columns = <<>> /\ row = <<>> /\ data = NoData
  /\ \E h \in HeaderValues :
       \E b1 \in BoxValues(h), b2 \in BoxValues(h), b3 \in BoxValues(h) :
         arg = <<h, b1, b2, b3>>
  /\ pc = "call"

CallLayout ==
  /\ pc = "call"
  /\ out' = layout_of(arg)
  /\ pc' = "return"
  /\ UNCHANGED <<columns, total_rows, uploaded_logo, found_columns, tmp_file,
                 first_box_logo, index, row, data, qr_data, all_elements,
                 document, errors, result, ui, arg>>

SpecLayout == InitLayout /\ [][CallLayout]_vars

RECURSIVE SumOf(_)
SumOf(s) == IF s = <<>> THEN 0 ELSE s[1] + SumOf(Tail(s))

\* C13: for every slider configuration the five fractions are > 0, a sum
\* that differs from 1.0 by more than 0.001 is flagged with the warning, and
\* the location row applies the five fractions to the content width as they
\* are, without renormalizing.
C13_FractionsPositiveAndFlagged ==
  pc = "return"
    => /\ Len(out.fractions) = 5
       /\ SubSeq(out.fractions, 1, 4) = arg
       /\ \A i \in 1..5 : out.fractions[i] > 0
       /\ (SumOf(out.fractions) - One > WarnTolerance
             \/ One - SumOf(out.fractions) > WarnTolerance)
            => out.warning
       /\ \A i \in 1..5 :
            out.col_widths_bottom[i] = CONTENT_BOX_WIDTH * out.fractions[i]
       /\ SumOf(out.col_widths_bottom) = CONTENT_BOX_WIDTH * SumOf(out.fractions)

C13_Witness ==
  /\ pc = "return"
  /\ arg = <<5000, 4000, 4000, 4000>>
  /\ out.fractions[5] = 500
  /\ out.warning
  /\ SumOf(out.col_widths_bottom) = CONTENT_BOX_WIDTH * 17500

-----------------------------------------------------------------------------
(* the worked example, run from upload to report under Spec *)

\* C14: for the table with columns Assembly Name, Part No, Description and
\* the single row AX-100-123, PN-998, Bracket, the three required fields
\* resolve to those columns, every optional field is absent and empty, the
\* QR payload is exactly the four lines ASSLY, Part No, Description, Date,
\* and the run ends with the success report and a document of one label.
C14_WorkedExample ==
  (pc = "done" /\ columns = SampleColumns /\ total_rows = 1 /\ row = SampleRow)
    => /\ found_columns =
            [key \in {"ASSLY", "part_no", "description"} |->
               CASE key = "ASSLY" -> SampleColumns[1]
                 [] key = "part_no" -> SampleColumns[2]
                 [] key = "description" -> SampleColumns[3]]
       /\ data.ASSLY = SampleRow[1]
       /\ data.part_no = SampleRow[2]
       /\ data.desc = SampleRow[3]
       /\ \A v \in {data.Part_per_veh, data.Type, data.line_location_raw,
                    data.part_status, data.bin_type} : v = <<>>
       /\ split(qr_data, "\n") =
            << lbl_ASSLY \o SampleRow[1], lbl_part_no \o SampleRow[2],
               lbl_desc \o SampleRow[3], <<"D","a","t","e",":"," ">> \o today_date >>
       /\ errors = <<>>
       /\ ui = "success"
       /\ result.pdf_data = PdfBytes
       /\ Len(document) = 1
       /\ document[1].kind = "label"
       /\ document[1].ASSLY = SampleRow[1]

\* everything the example promises before the label is composed
C14_ExampleUpToComposition ==
  (pc = "done" /\ columns = SampleColumns /\ total_rows = 1 /\ row = SampleRow)
    => /\ DOMAIN found_columns = {"ASSLY", "part_no", "description"}
       /\ found_columns["ASSLY"] = SampleColumns[1]
       /\ found_columns["part_no"] = SampleColumns[2]
       /\ found_columns["description"] = SampleColumns[3]
       /\ data.ASSLY = SampleRow[1]
       /\ \A v \in {data.Part_per_veh, data.Type, data.line_location_raw,
                    data.part_status, data.bin_type} : v = <<>>
       /\ split(qr_data, "\n") =
            << lbl_ASSLY \o SampleRow[1], lbl_part_no \o SampleRow[2],
               lbl_desc \o SampleRow[3], <<"D","a","t","e",":"," ">> \o today_date >>

-----------------------------------------------------------------------------
(* whitespace around cell text, checked under SpecExtract *)

Whitespace == {" ", "\t", "\n", "\r"}

\* s = s.strip()
IsTrimmed(s) ==
  s = <<>> \/ (s[1] \notin Whitespace /\ s[Len(s)] \notin Whitespace)

\* C15: every field extracted from a row is a trimmed string: it has no
\* leading and no trailing whitespace, whatever the source cell contains.
C15_ExtractedFieldsTrimmed ==
  pc = "return" => \A key \in Fields : IsTrimmed(data[LocalOf[key]])

-----------------------------------------------------------------------------
(* the order of preference among matches, checked under SpecFindColumn *)

\* the aliases that match some column in the substring tier
PartialAliases ==
  {a \in DOMAIN arg :
     \E c \in DOMAIN columns :
       partial_hit(normalize_column_name(arg[a]),
                   normalize_column_name(columns[c]))}

\* the first column, in table order, that alias a matches exactly
FirstExactColumn(a) ==
  columns[Min({c \in DOMAIN columns :
                 normalize_column_name(columns[c]) = normalize_column_name(arg[a])})]

\* the first column, in table order, that alias a matches in the substring tier
FirstPartialColumn(a) ==
  columns[Min({c \in DOMAIN columns :
                 partial_hit(normalize_column_name(arg[a]),
                             normalize_column_name(columns[c]))})]

\* C16: in the exact and in the substring tier the winning alias is the
\* first alias in declared order that has a match, and the returned column
\* is the first column in table order that this alias matches, also when
\* several column names share one canonical form.
C16_AliasOrderThenTableOrder ==
  pc = "return"
    => /\ ExactAliases # {} => out = FirstExactColumn(Min(ExactAliases))
       /\ (ExactAliases = {} /\ PartialAliases # {})
            => out = FirstPartialColumn(Min(PartialAliases))

\* the same with several columns of one canonical form left out: there the
\* order of preference is as stated
C16_OrderAmongDistinctForms ==
  (pc = "return"
     /\ \A c, d \in DOMAIN columns :
          normalize_column_name(columns[c]) = normalize_column_name(columns[d])
            => c = d)
    => /\ ExactAliases # {} => out = FirstExactColumn(Min(ExactAliases))
       /\ (ExactAliases = {} /\ PartialAliases # {})
            => out = FirstPartialColumn(Min(PartialAliases))

-----------------------------------------------------------------------------
(* the "N/A" branch of lines 296-298, checked under Spec *)

\* C17: in every run that reaches the row loop the three required fields are
\* in the resolved schema, so each required value of a processed row is the
\* string form of its cell, never the substituted "N/A", and neither the QR
\* payload nor a label carries "N/A".
C17_SentinelUnreachable ==
  /\ pc \in {"setup", "loop"} => RequiredResolved
  /\ index > 0
       => /\ RequiredResolved
          /\ data.ASSLY = str(Cell(row, columns, found_columns["ASSLY"]))
          /\ data.part_no = str(Cell(row, columns, found_columns["part_no"]))
          /\ data.desc = str(Cell(row, columns, found_columns["description"]))
          /\ NotAvailable \notin {data.ASSLY, data.part_no, data.desc}
          /\ ~In(NotAvailable, qr_data)
          /\ \A i \in DOMAIN all_elements :
               all_elements[i].kind = "label"
                 => NotAvailable \notin {all_elements[i].ASSLY,
                                         all_elements[i].part_no,
                                         all_elements[i].desc}

C17_Witness ==
  /\ index = 1
  /\ "ASSLY" \in DOMAIN found_columns
  /\ data.ASSLY = <<"A","_","1">>
  /\ data.desc = <<"n","a","n">>
  /\ In(lbl_ASSLY \o <<"A","_","1">>, qr_data)

-----------------------------------------------------------------------------
(* the temporary PDF file of lines 198-200, checked under Spec *)

\* C18: on every return path taken after the temporary PDF file has been
\* created (a successful build, or an exception while a row is composed or
\* the document is built) the file has been deleted when the function
\* returns.
C18_TempFileDeleted ==
  (Returned /\ tmp_file # "none") => tmp_file = "deleted"

\* the file is deleted on the one path that returns the document
C18_DeletedOnSuccess ==
  (Returned /\ result.pdf_data = PdfBytes) => tmp_file = "deleted"

-----------------------------------------------------------------------------
(* columns without a letter or digit, checked under SpecFindColumn *)

\* C19: a column whose canonical form is the empty string (its name has no
\* ASCII letter or digit) is never returned by find_column, whatever the
\* other columns and the aliases are.
C19_EmptyFormNeverReturned ==
  (pc = "return" /\ out # None) => normalize_column_name(out) # <<>>

====
